---- MODULE Spec2Model ----
(***************************************************************************)
(* Input validation of the Hermite function evaluators of                  *)
(* robust_hermite_ft (hermite_functions/_validate.py) and the call of an   *)
(* evaluator around it (Spec); the offline search for the largest extremum *)
(* and its neighbour search (SpecSearch, SpecNeighbour), the spline of the *)
(* largest extrema (SpecSpline) and the basis evaluated by a pool of       *)
(* workers (SpecParallel).  Each specification leaves the variables of the *)
(* others at their idle values.                                            *)
(*                                                                         *)
(* Python objects are records.  A number is [k, v]:                        *)
(*   k = "fin"  : the value v/2 (v counts halves, so 0.5 and 1.5 exist and *)
(*                an integer i is v = 2*i),                                *)
(*   k = "big"  : the integer 2^53 + v (beyond the exact range of float64), *)
(*   k = "nan", "pinf", "ninf" : the IEEE specials.                         *)
(* A scalar object is [type, num, im]; im is the imaginary part (only      *)
(* complex objects have a non-zero one).                                   *)
(***************************************************************************)
EXTENDS Integers, Sequences, FiniteSets, TLC

VARIABLES
    pc,          \* position of the call: "called", "validated", "centered",
                 \* "dilated", "recurrence", "returned", "raised"
    x,           \* the caller's coordinate object (its storage included)
    n,           \* the caller's order object
    alpha,       \* the caller's alpha object
    x_center,    \* the caller's center object
    x_original,  \* copy of x taken before the call (as the test's x.copy())
    validated,   \* what get_validated_hermite_function_input gave
    x_internal,  \* the evaluator's internal coordinate storage
    columns,     \* number of basis columns the recurrence has produced
    basis,       \* the columns produced so far, orders 0, 1, ... in turn
    n_validations, \* how often the input validation has run in this call
    outcome      \* what the call handed to the caller

\* the offline search for the largest extremum of a Hermite function
\* (auxiliary_scripts/02_hermite_functions_largest_extremum.py); positions
\* are whole numbers of the resolution unit, indices count from 0 as in
\* the source
VARIABLES
    search_pc,       \* "idle", "loop", "returned", "raised"
    x_largest_zero,  \* lower landmark, the initial lower bound
    x_fadeout,       \* upper landmark, the initial upper bound
    x_lower_bound,
    x_upper_bound,
    x_spacing,       \* the fraction [num, den]
    iter_i,
    extremum_index,  \* index of the largest value on the last grid
    x_extremum,      \* [bound |-> FALSE] until the loop assigns it
    index_left_of_extremum,      \* what the neighbour search gave on the left
    index_right_of_extremum,     \* ... and on the right
    y_tolerance_met_left,
    y_tolerance_met_right,
    num_evaluations  \* how many grids have been evaluated

\* one call of _find_first_index_of_smaller_neighbour_point
VARIABLES neighbour_call

\* the spline of the largest extrema: the specifications the script writes
\* and one evaluation of them
VARIABLES spline_specs, spline_call

\* one evaluation of the full basis by a pool of workers
VARIABLES parallel_call

evalVars == <<pc, x, n, alpha, x_center, x_original, validated, x_internal,
              columns, basis, n_validations, outcome>>
searchVars == <<search_pc, x_largest_zero, x_fadeout, x_lower_bound,
                x_upper_bound, x_spacing, iter_i, extremum_index,
                x_extremum, index_left_of_extremum, index_right_of_extremum,
                y_tolerance_met_left, y_tolerance_met_right,
                num_evaluations>>
splineVars == <<spline_specs, spline_call>>
\* what an evaluator call leaves alone
offlineVars == <<searchVars, neighbour_call, splineVars, parallel_call>>
\* what the search, the neighbour search, the spline and the pool leave alone
nonSearchVars == <<evalVars, neighbour_call, splineVars, parallel_call>>
nonNeighbourVars == <<evalVars, searchVars, splineVars, parallel_call>>
nonSplineVars == <<evalVars, searchVars, neighbour_call, parallel_call>>
nonParallelVars == <<evalVars, searchVars, neighbour_call, splineVars>>

vars == <<evalVars, offlineVars>>

Unbound == [bound |-> FALSE]
Bound(value) == [bound |-> TRUE, value |-> value]

\* no search is running
SearchIdle ==
    /\ search_pc = "idle"
    /\ x_largest_zero = 0 /\ x_fadeout = 0
    /\ x_lower_bound = 0 /\ x_upper_bound = 0
    /\ x_spacing = [num |-> 0, den |-> 1]
    /\ iter_i = 0
    /\ extremum_index = 0
    /\ x_extremum = Unbound
    /\ index_left_of_extremum = 0 /\ index_right_of_extremum = 0
    /\ y_tolerance_met_left = FALSE /\ y_tolerance_met_right = FALSE
    /\ num_evaluations = 0

NeighbourIdle == neighbour_call = [pc |-> "idle"]
SplineIdle == spline_specs = <<>> /\ spline_call = [pc |-> "idle"]
ParallelIdle == parallel_call = [pc |-> "idle"]

\* no evaluator is being called
EvaluatorIdle ==
    /\ pc = "idle"
    /\ x = <<>> /\ n = <<>> /\ alpha = <<>> /\ x_center = <<>>
    /\ x_original = <<>>
    /\ validated = <<>> /\ x_internal = <<>>
    /\ columns = 0 /\ n_validations = 0
    /\ basis = <<>>
    /\ outcome = <<>>

-----------------------------------------------------------------------------
(* Bounds of the model *)

\* finite floats are the halves -MaxHalf .. MaxHalf
MaxHalf == 2
\* integers are -1 .. MaxOrder
MaxOrder == 2
\* array-likes have at most MaxLen elements
MaxLen == 2

-----------------------------------------------------------------------------
(* Numbers *)

Fin(h) == [k |-> "fin", v |-> h]
Big(d) == [k |-> "big", v |-> d]
NaN == [k |-> "nan", v |-> 0]
PInf == [k |-> "pinf", v |-> 0]
NInf == [k |-> "ninf", v |-> 0]
Zero == Fin(0)

\* Python's a <= 0.0 on a float: every comparison with NaN is False
LeqZero(num) ==
    CASE num.k = "fin" -> num.v <= 0
      [] num.k = "ninf" -> TRUE
      [] OTHER -> FALSE

\* a < 0 on a Python int
IntLtZero(num) == num.k = "fin" /\ num.v < 0

\* a > 0 in the mathematical sense (False for NaN)
IsPositive(num) ==
    CASE num.k = "fin" -> num.v > 0
      [] num.k \in {"big", "pinf"} -> TRUE
      [] OTHER -> FALSE

\* Python's a == b on numbers: NaN equals nothing, itself included
NumEq(a, b) == a.k # "nan" /\ b.k # "nan" /\ a = b

\* float(i) of an integer: exact below 2^53; in [2^53, 2^54) the float64
\* spacing is 2 and a tie goes to the even mantissa
IntToFloat(num) ==
    IF num.k = "big"
    THEN IF num.v % 2 = 0 THEN num
         ELSE IF ((num.v - 1) \div 2) % 2 = 0 THEN Big(num.v - 1)
              ELSE Big(num.v + 1)
    ELSE num

-----------------------------------------------------------------------------
(* Python objects and their types *)

Obj(t, num, im) == [type |-> t, num |-> num, im |-> im]
PyInt(i) == Obj("int", Fin(2 * i), Zero)
PyBool(b) == Obj("bool", Fin(2 * b), Zero)
PyFloat(num) == Obj("float", num, Zero)
PyComplex(re, im) == Obj("complex", re, im)
PyStr == Obj("str", Zero, Zero)
PyNone == Obj("NoneType", Zero, Zero)
NpInt64(i) == Obj("numpy.int64", Fin(2 * i), Zero)
NpFloat64(num) == Obj("numpy.float64", num, Zero)
NpFloat32(num) == Obj("numpy.float32", num, Zero)
NpBool(b) == Obj("numpy.bool_", Fin(2 * b), Zero)

\* the classes an object of the type is an instance of
Mro(t) ==
    CASE t = "bool" -> {"bool", "int"}
      [] t = "numpy.int64" -> {"numpy.int64", "np.integer"}
      [] t = "numpy.float64" -> {"numpy.float64", "np.floating", "float"}
      [] t = "numpy.float32" -> {"numpy.float32", "np.floating"}
      [] OTHER -> {t}

isinstance(obj, classes) == Mro(obj.type) \cap classes # {}

_real_scalar_types_no_pyfloat == {"int", "np.floating", "np.integer"}
IntScalar == {"int", "np.integer"}
RealScalar == {"float", "int", "np.floating", "np.integer"}
_X_DTYPE == "float64"

\* int(n) of a NumPy integer and float(v) of an integer or a NumPy scalar
int(obj) == Obj("int", obj.num, Zero)
float(obj) ==
    Obj("float",
        IF Mro(obj.type) \cap {"int", "np.integer"} # {}
        THEN IntToFloat(obj.num) ELSE obj.num,
        Zero)

-----------------------------------------------------------------------------
(* Formatting: a message is the sequence of its blank-separated words *)

Abs(i) == IF i < 0 THEN -i ELSE i

\* f"{type(obj)}" followed by the text that ends the word
TypeWords(t, tail) == <<"<class", "'" \o t \o "'>" \o tail>>

\* f"{n}" of a Python int
IntStr(num) ==
    IF num.k = "big" THEN "900719925474099" \o ToString(2 + num.v)
    ELSE ToString(num.v \div 2)

\* f"{alpha}" of a Python float
FloatStr(num) ==
    CASE num.k = "nan" -> "nan"
      [] num.k = "pinf" -> "inf"
      [] num.k = "ninf" -> "-inf"
      [] num.k = "big" -> "900719925474099" \o ToString(2 + num.v) \o ".0"
      [] OTHER -> (IF num.v < 0 THEN "-" ELSE "")
                  \o ToString(Abs(num.v) \div 2)
                  \o (IF num.v % 2 = 0 THEN ".0" ELSE ".5")

\* the text occurs in the message (word by word, as re.search finds it when
\* the text begins and ends at word boundaries)
Contains(msg, text) ==
    \E i \in 0..(Len(msg) - Len(text)) :
        \A j \in 1..Len(text) : msg[i + j] = text[j]

-----------------------------------------------------------------------------
(* Results of a validation: a returned value or a raised exception *)

Return(value) == [ok |-> TRUE, value |-> value, exc |-> "none", msg |-> <<>>]
Raise(exc, msg) == [ok |-> FALSE, value |-> PyNone, exc |-> exc, msg |-> msg]

TypeError(msg) == Raise("TypeError", msg)
ValueError(msg) == Raise("ValueError", msg)

-----------------------------------------------------------------------------
(* get_validated_order *)


\* get_validated_order without the conversion of NumPy integers
get_validated_order_no_numpy(n_in) ==
    IF ~isinstance(n_in, {"int"})
    THEN TypeError(<<"Expected", "'n'", "to", "be", "an", "integer", "but",
                     "got", "type">> \o TypeWords(n_in.type, "."))
    ELSE IF IntLtZero(n_in.num)
    THEN ValueError(<<"Expected", "'n'", "to", "be", "a", "non-negative",
                      "integer", "but", "got", IntStr(n_in.num) \o ".">>)
    ELSE Return(n_in)

\* get_validated_order with the sign check ahead of the type check
get_validated_order_sign_first(n_in) ==
    LET n1 == IF isinstance(n_in, {"np.integer"}) THEN int(n_in) ELSE n_in
    IN  IF isinstance(n1, RealScalar) /\ n1.num.k = "fin" /\ n1.num.v < 0
        THEN ValueError(<<"Expected", "'n'", "to", "be", "a", "non-negative",
                          "integer", "but", "got", IntStr(n1.num) \o ".">>)
        ELSE IF ~isinstance(n1, {"int"})
        THEN TypeError(<<"Expected", "'n'", "to", "be", "an", "integer", "but",
                         "got", "type">> \o TypeWords(n1.type, "."))
        ELSE Return(n1)

get_validated_order(n_in) ==
    LET n1 == IF isinstance(n_in, {"np.integer"}) THEN int(n_in) ELSE n_in
    IN  IF ~isinstance(n1, {"int"})
        THEN TypeError(<<"Expected", "'n'", "to", "be", "an", "integer", "but",
                         "got", "type">> \o TypeWords(n1.type, "."))
        ELSE IF IntLtZero(n1.num)
        THEN ValueError(<<"Expected", "'n'", "to", "be", "a", "non-negative",
                          "integer", "but", "got", IntStr(n1.num) \o ".">>)
        ELSE Return(n1)

(* get_validated_alpha *)

get_validated_alpha(alpha_in) ==
    LET a1 == IF isinstance(alpha_in, _real_scalar_types_no_pyfloat)
              THEN float(alpha_in) ELSE alpha_in
    IN  IF ~isinstance(a1, {"float"})
        THEN TypeError(<<"Expected", "'alpha'", "to", "be", "a", "float", "or",
                         "integer", "but", "got", "type">>
                       \o TypeWords(a1.type, "."))
        ELSE IF LeqZero(a1.num)
        THEN ValueError(<<"Expected", "'alpha'", "to", "be", "a", "positive",
                          "number", "but", "got", FloatStr(a1.num) \o ".">>)
        ELSE Return(a1)

(* get_validated_offset_along_axis *)

\* the validation without the replacement of None by 0.0
get_validated_offset_along_axis_keep_none(center, which_axis) ==
    IF center # PyNone
    THEN LET c1 == IF isinstance(center, _real_scalar_types_no_pyfloat)
                   THEN float(center) ELSE center
         IN  IF ~isinstance(c1, {"float"})
             THEN TypeError(<<"Expected", "the", which_axis \o "-'center'",
                              "to", "be", "a", "float,", "integer,", "or",
                              "None", "but", "got", "type">>
                            \o TypeWords(c1.type, "."))
             ELSE Return(c1)
    ELSE Return(center)

get_validated_offset_along_axis(center, which_axis) ==
    IF center # PyNone
    THEN LET c1 == IF isinstance(center, _real_scalar_types_no_pyfloat)
                   THEN float(center) ELSE center
         IN  IF ~isinstance(c1, {"float"})
             THEN TypeError(<<"Expected", "the", which_axis \o "-'center'",
                              "to", "be", "a", "float,", "integer,", "or",
                              "None", "but", "got", "type">>
                            \o TypeWords(c1.type, "."))
             ELSE Return(c1)
    ELSE Return(PyFloat(Zero))

-----------------------------------------------------------------------------
(* Array-likes and NumPy arrays *)

(* A coordinate input is [kind, dtype, shape, data]:                        *)
(*   kind "scalar"  : data = <<the object>>, shape <<>>                     *)
(*   kind "list", "tuple" : data = the items, shape <<L>>, or <<1, L>> for  *)
(*                    the nested [[...]]                                    *)
(*   kind "ndarray" : the caller's own array of that dtype and shape; data  *)
(*                    is its buffer in row-major order                      *)
(* An array inside the validation is [dtype, shape, data, base]; base says  *)
(* whose memory it uses: "x" (the caller's array) or "own" (fresh memory).  *)

Input(kind, dtype, shape, data) ==
    [kind |-> kind, dtype |-> dtype, shape |-> shape, data |-> data]
Array(dtype, shape, data, base) ==
    [dtype |-> dtype, shape |-> shape, data |-> data, base |-> base]

RECURSIVE Product(_)
Product(shape) ==
    IF shape = <<>> THEN 1 ELSE Head(shape) * Product(Tail(shape))

ndim(arr) == Len(arr.shape)
size(arr) == Product(arr.shape)

\* the dtype NumPy gives to an array made of these Python/NumPy objects
ScalarDtype(t) ==
    CASE t = "complex" -> "complex128"
      [] t \in {"float", "numpy.float64"} -> "float64"
      [] t = "numpy.float32" -> "float32"
      [] t \in {"int", "numpy.int64"} -> "int64"
      [] t \in {"bool", "numpy.bool_"} -> "bool"
      [] OTHER -> "object"

DtypeRank(d) ==
    CASE d = "bool" -> 0
      [] d = "int64" -> 1
      [] d = "float32" -> 2
      [] d = "float64" -> 3
      [] d = "complex128" -> 4
      [] OTHER -> 5

\* int64 with float32 promotes to float64, everything else to the higher one
Promote(d1, d2) ==
    IF {d1, d2} = {"int64", "float32"} THEN "float64"
    ELSE IF DtypeRank(d1) >= DtypeRank(d2) THEN d1 ELSE d2

RECURSIVE ResultDtype(_)
ResultDtype(items) ==
    IF items = <<>> THEN "float64"
    ELSE IF Len(items) = 1 THEN ScalarDtype(items[1].type)
    ELSE Promote(ScalarDtype(items[1].type), ResultDtype(Tail(items)))

\* the element an object becomes when it is stored with the dtype
Cast(obj, dtype) ==
    CASE dtype = "complex128" -> Obj("numpy.complex128", obj.num, obj.im)
      [] dtype = "float64" ->
            Obj("numpy.float64",
                IF ScalarDtype(obj.type) = "int64" THEN IntToFloat(obj.num)
                ELSE obj.num, Zero)
      [] dtype = "float32" -> Obj("numpy.float32", obj.num, Zero)
      [] dtype = "int64" -> Obj("numpy.int64", obj.num, Zero)
      [] dtype = "bool" -> Obj("numpy.bool_", obj.num, Zero)
      [] OTHER -> obj


\* np.array in the place of np.asanyarray: a copy of an ndarray as well
asanyarray_copy(x_in) ==
    LET dtype == IF x_in.kind = "ndarray" THEN x_in.dtype
                 ELSE ResultDtype(x_in.data)
    IN  Array(dtype, x_in.shape,
              [i \in 1..Len(x_in.data) |-> Cast(x_in.data[i], dtype)], "own")

\* np.asanyarray: an ndarray is passed through, anything else is copied
\* into a new array
asanyarray(x_in) ==
    IF x_in.kind = "ndarray"
    THEN Array(x_in.dtype, x_in.shape, x_in.data, "x")
    ELSE LET dtype == ResultDtype(x_in.data)
         IN  Array(dtype, x_in.shape,
                   [i \in 1..Len(x_in.data) |-> Cast(x_in.data[i], dtype)],
                   "own")


\* np.asanyarray in the place of np.atleast_1d: no promotion of a scalar
atleast_1d_no_promotion(x_in) == asanyarray(x_in)

\* np.atleast_1d: a 0-dimensional array is reshaped to (1,), which is a
\* view of the same memory
atleast_1d(x_in) ==
    LET ary == asanyarray(x_in)
    IN  IF ndim(ary) = 0 THEN [ary EXCEPT !.shape = <<1>>] ELSE ary

\* np.isreal(arr).all(): every imaginary part equals zero
isreal_all(arr) ==
    \A i \in 1..Len(arr.data) : NumEq(arr.data[i].im, Zero)

\* arr.astype(dtype): always a new array
astype(arr, dtype) ==
    Array(dtype, arr.shape,
          [i \in 1..Len(arr.data) |-> Cast(arr.data[i], dtype)], "own")

\* type(x) and hasattr(x, "dtype")
TypeOf(x_in) == IF x_in.kind = "scalar" THEN x_in.data[1].type
                ELSE IF x_in.kind = "ndarray" THEN "numpy.ndarray"
                ELSE x_in.kind
HasDtype(x_in) ==
    x_in.kind = "ndarray"
    \/ (x_in.kind = "scalar"
        /\ x_in.data[1].type \in {"numpy.int64", "numpy.float64",
                                  "numpy.float32", "numpy.bool_"})
DtypeOf(x_in) == IF x_in.kind = "ndarray" THEN x_in.dtype
                 ELSE ScalarDtype(x_in.data[1].type)

(* get_validated_x_values *)

get_validated_x_values(x_in) ==
    LET x_internal_1 == atleast_1d(x_in)
    IN  IF ~isreal_all(x_internal_1)
        THEN TypeError(<<"Expected", "'x'", "to", "be", "a", "real", "scalar",
                         "or", "a", "real-value", "Array-like", "but", "got",
                         "type">>
                       \o (IF HasDtype(x_in)
                           THEN TypeWords(TypeOf(x_in), "")
                                \o <<"with", "dtype", DtypeOf(x_in) \o ".">>
                           ELSE TypeWords(TypeOf(x_in), ".")))
        ELSE LET x_internal_2 ==
                     IF ~(x_internal_1.dtype = _X_DTYPE)
                     THEN astype(x_internal_1, _X_DTYPE)
                     ELSE x_internal_1
             IN  IF ndim(x_internal_2) # 1
                 THEN ValueError(<<"Expected", "'x'", "to", "be",
                                   "1-dimensional", "but", "it", "is",
                                   ToString(ndim(x_internal_2))
                                   \o "-dimensional.">>)
                 ELSE IF size(x_internal_2) < 1
                 THEN ValueError(<<"Expected", "'x'", "to", "have", "at",
                                   "least", "one", "element", "but", "got",
                                   ToString(size(x_internal_2)),
                                   "elements.">>)
                 ELSE Return(x_internal_2)

(* get_validated_hermite_function_input: the tuple is built left to right, *)
(* so the first validation that raises ends the call                       *)


\* the validation with the order looked at before the coordinates
get_validated_hermite_function_input_order_first(x_in, n_in, alpha_in, x_center_in) ==
    LET vx == get_validated_x_values(x_in)
        vn == get_validated_order(n_in)
        va == get_validated_alpha(alpha_in)
        vc == get_validated_offset_along_axis(x_center_in, "x")
    IN  IF ~vn.ok THEN vn
        ELSE IF ~vx.ok THEN vx
        ELSE IF ~va.ok THEN va
        ELSE IF ~vc.ok THEN vc
        ELSE Return(<<vx.value, vn.value, va.value, vc.value>>)

\* the validation with the center handed on as it came
get_validated_hermite_function_input_raw_center(x_in, n_in, alpha_in, x_center_in) ==
    LET vx == get_validated_x_values(x_in)
        vn == get_validated_order(n_in)
        va == get_validated_alpha(alpha_in)
    IN  IF ~vx.ok THEN vx
        ELSE IF ~vn.ok THEN vn
        ELSE IF ~va.ok THEN va
        ELSE Return(<<vx.value, vn.value, va.value,
                      IF x_center_in = PyNone THEN PyFloat(Zero)
                      ELSE x_center_in>>)

get_validated_hermite_function_input(x_in, n_in, alpha_in, x_center_in) ==
    LET vx == get_validated_x_values(x_in)
        vn == get_validated_order(n_in)
        va == get_validated_alpha(alpha_in)
        vc == get_validated_offset_along_axis(x_center_in, "x")
    IN  IF ~vx.ok THEN vx
        ELSE IF ~vn.ok THEN vn
        ELSE IF ~va.ok THEN va
        ELSE IF ~vc.ok THEN vc
        ELSE Return(<<vx.value, vn.value, va.value, vc.value>>)

-----------------------------------------------------------------------------
(* float64 arithmetic of the evaluator on the modelled numbers *)

\* the float64 nearest to 2^53 + t/2 (t counts halves): the spacing is 2
\* from 2^53 on and 1 below it; a tie goes to the even mantissa
RoundBig(t) ==
    LET step == IF t >= 0 THEN 4 ELSE 2
        lo == (t \div step) * step
        r == t - lo
        pick == IF 2 * r < step THEN lo
                ELSE IF 2 * r > step THEN lo + step
                ELSE IF (lo \div step) % 2 = 0 THEN lo ELSE lo + step
    IN  Big(pick \div 2)

Neg(num) ==
    CASE num.k = "fin" -> Fin(-num.v)
      [] num.k = "big" -> [k |-> "nbig", v |-> num.v]
      [] num.k = "nbig" -> Big(num.v)
      [] num.k = "pinf" -> NInf
      [] num.k = "ninf" -> PInf
      [] OTHER -> num

Sign(num) ==
    CASE num.k = "fin" -> IF num.v > 0 THEN 1 ELSE IF num.v < 0 THEN -1 ELSE 0
      [] num.k \in {"big", "pinf"} -> 1
      [] num.k \in {"nbig", "ninf"} -> -1
      [] OTHER -> 0

\* a - b
FSub(a, b) ==
    CASE a.k = "nan" \/ b.k = "nan" -> NaN
      [] a.k \in {"pinf", "ninf"} -> IF b.k = a.k THEN NaN ELSE a
      [] b.k \in {"pinf", "ninf"} -> Neg(b)
      [] a.k = "fin" /\ b.k = "fin" -> Fin(a.v - b.v)
      [] a.k = "big" /\ b.k = "big" -> Fin(2 * (a.v - b.v))
      [] a.k = "big" /\ b.k = "fin" -> RoundBig(2 * a.v - b.v)
      [] a.k = "fin" /\ b.k = "big" -> Neg(RoundBig(2 * b.v - a.v))
      [] OTHER -> NaN

\* a + b for numbers that are not both near 2^53
FAdd(a, b) ==
    CASE a.k = "nan" \/ b.k = "nan" -> NaN
      [] a.k \in {"pinf", "ninf"} ->
            IF b.k \in {"pinf", "ninf"} /\ b.k # a.k THEN NaN ELSE a
      [] b.k \in {"pinf", "ninf"} -> b
      [] a.k = "fin" /\ b.k = "fin" -> Fin(a.v + b.v)
      [] a.k = "big" /\ b.k = "fin" -> RoundBig(2 * a.v + b.v)
      [] a.k = "fin" /\ b.k = "big" -> RoundBig(2 * b.v + a.v)
      [] OTHER -> NaN

\* a * b; a finite product of two small numbers counts quarters ("fin4"), a
\* product with a number near 2^53 keeps its sign only ("huge")
FMul(a, b) ==
    CASE a.k = "nan" \/ b.k = "nan" -> NaN
      [] a.k \in {"pinf", "ninf"} \/ b.k \in {"pinf", "ninf"} ->
            IF Sign(a) * Sign(b) = 0 THEN NaN
            ELSE IF Sign(a) * Sign(b) > 0 THEN PInf ELSE NInf
      [] a.k = "fin" /\ b.k = "fin" -> [k |-> "fin4", v |-> a.v * b.v]
      [] OTHER -> IF Sign(a) * Sign(b) = 0 THEN [k |-> "fin4", v |-> 0]
                  ELSE [k |-> "huge", v |-> Sign(a) * Sign(b)]

-----------------------------------------------------------------------------
(* The evaluator around the validation *)

Pending == Raise("none", <<>>)


\* x -= x_center on the validated array itself: when that array is the
\* caller's memory the caller's elements are overwritten
center_x_values_in_place(x_obj, x_valid, center) ==
    LET centered == [i \in 1..Len(x_valid.data) |->
                        FSub(x_valid.data[i].num, center.num)]
    IN  [x |-> IF x_valid.base = "x"
               THEN [x_obj EXCEPT !.data =
                        [i \in 1..Len(x_obj.data) |->
                            [x_obj.data[i] EXCEPT !.num = centered[i]]]]
               ELSE x_obj,
         x_internal |-> Array(_X_DTYPE, x_valid.shape, centered, x_valid.base)]

\* x - x_center, written to an internal copy; the caller's object is left
\* as it is
center_x_values(x_obj, x_valid, center) ==
    [x |-> x_obj,
     x_internal |->
        Array(_X_DTYPE, x_valid.shape,
              [i \in 1..Len(x_valid.data) |->
                  FSub(x_valid.data[i].num, center.num)],
              "own")]

\* alpha * (x - x_center) on the internal storage
dilate_x_values(x_int, alpha_valid) ==
    [x_int EXCEPT !.data =
        [i \in 1..Len(x_int.data) |-> FMul(alpha_valid.num, x_int.data[i])]]

ValidOrder == validated.value[2].num.v \div 2

(* The three-term recurrence.  A function value is kept as the term that  *)
(* produced it: [order, x, from], from being the values of the two orders  *)
(* below it at the same coordinate (one for order 1, none for order 0).    *)

\* the column of order k with the column of order k - 1 used twice
next_column_one_below_twice(k, xs, column_km1, column_km2) ==
    [i \in 1..Len(xs) |->
        [order |-> k, x |-> xs[i],
         from |-> IF k = 0 THEN <<>>
                  ELSE IF k = 1 THEN <<column_km1[i]>>
                  ELSE <<column_km1[i], column_km1[i]>>]]

\* the column of order k at the coordinates xs from the columns of the
\* orders k - 1 and k - 2
next_column(k, xs, column_km1, column_km2) ==
    [i \in 1..Len(xs) |->
        [order |-> k, x |-> xs[i],
         from |-> IF k = 0 THEN <<>>
                  ELSE IF k = 1 THEN <<column_km1[i]>>
                  ELSE <<column_km1[i], column_km2[i]>>]]

\* the single-function path: the same recurrence keeping the two leading
\* columns only, from order k on up to order n_valid
RECURSIVE single_from(_, _, _, _, _)
single_from(k, n_valid, xs, column_km1, column_km2) ==
    IF k > n_valid THEN column_km1
    ELSE single_from(k + 1, n_valid, xs,
                     next_column(k, xs, column_km1, column_km2), column_km1)

single_hermite_function(xs, n_valid) == single_from(0, n_valid, xs, <<>>, <<>>)

\* every evaluator starts with the validation of its four parameters
Validate ==
    /\ pc = "called"
    /\ validated' = get_validated_hermite_function_input(x, n, alpha, x_center)
    /\ n_validations' = n_validations + 1
    /\ IF validated'.ok
       THEN pc' = "validated" /\ outcome' = outcome
       ELSE pc' = "raised" /\ outcome' = validated'
    /\ UNCHANGED <<x, n, alpha, x_center, x_original, x_internal, columns,
                   basis>>
    /\ UNCHANGED offlineVars

Center ==
    /\ pc = "validated"
    /\ LET r == center_x_values(x, validated.value[1], validated.value[4])
       IN  x' = r.x /\ x_internal' = r.x_internal
    /\ pc' = "centered"
    /\ UNCHANGED <<n, alpha, x_center, x_original, validated, columns,
                   basis, n_validations, outcome>>
    /\ UNCHANGED offlineVars

Dilate ==
    /\ pc = "centered"
    /\ x_internal' = dilate_x_values(x_internal, validated.value[3])
    /\ pc' = "dilated"
    /\ UNCHANGED <<x, n, alpha, x_center, x_original, validated, columns,
                   basis, n_validations, outcome>>
    /\ UNCHANGED offlineVars

\* one step of the recurrence produces the next column, orders 0 .. n
RecurrenceStep ==
    /\ pc = "dilated"
    /\ columns < ValidOrder + 1
    /\ columns' = columns + 1
    /\ basis' = Append(basis,
                       next_column(columns, x_internal.data,
                                   IF columns >= 1 THEN basis[columns]
                                   ELSE <<>>,
                                   IF columns >= 2 THEN basis[columns - 1]
                                   ELSE <<>>))
    /\ UNCHANGED <<pc, x, n, alpha, x_center, x_original, validated,
                   x_internal, n_validations, outcome>>
    /\ UNCHANGED offlineVars

Finish ==
    /\ pc = "dilated"
    /\ columns = ValidOrder + 1
    /\ outcome' = Return([shape |-> <<Len(x_internal.data), columns>>,
                           columns |-> basis])
    /\ pc' = "returned"
    /\ UNCHANGED <<x, n, alpha, x_center, x_original, validated, x_internal,
                   columns, basis, n_validations>>
    /\ UNCHANGED offlineVars

-----------------------------------------------------------------------------
(* The inputs of a call *)

SeqsUpTo(S, len) == UNION {[1..m -> S] : m \in 0..len}

FiniteFloats == {Fin(h) : h \in -MaxHalf..MaxHalf}
Floats == FiniteFloats \cup {NaN, PInf, NInf}
Ints == -1..MaxOrder

OrderInputs ==
    {PyInt(i) : i \in Ints}
    \cup {PyBool(1), NpInt64(-1), NpInt64(1)}
    \cup {PyFloat(Fin(2)), PyFloat(Fin(-2)), PyFloat(Fin(1)), NpFloat64(Fin(2))}
    \cup {PyComplex(Fin(2), Fin(2)), PyNone}

AlphaInputs ==
    {PyFloat(f) : f \in Floats}
    \cup {PyInt(-1), PyInt(0), PyInt(1), PyBool(1)}
    \cup {NpFloat64(Fin(2)), NpFloat32(Fin(1)), NpInt64(0), NpInt64(2)}
    \cup {PyComplex(Fin(2), Zero), PyComplex(Fin(2), Fin(2)), PyStr, NpBool(1)}

CenterInputs ==
    {PyNone}
    \cup {PyFloat(f) : f \in {Fin(0), Fin(2), Fin(-1), NaN, PInf}}
    \cup {PyInt(1), NpFloat64(Fin(1)), NpInt64(-1)}
    \cup {PyComplex(Fin(2), Fin(2))}

ScalarXInputs ==
    {Input("scalar", "", <<>>, <<o>>) :
        o \in {PyFloat(Fin(2)), PyFloat(NaN), PyInt(1), PyBool(1),
               PyComplex(Fin(2), Fin(2)), PyComplex(Fin(2), Zero),
               NpFloat64(Fin(1)), NpFloat32(Fin(1))}}

ListXInputs ==
    {Input("list", "", <<Len(d)>>, d) :
        d \in SeqsUpTo({PyFloat(Fin(-1)), PyInt(1)}, MaxLen)}
    \cup {Input("tuple", "", <<Len(d)>>, d) :
        d \in SeqsUpTo({PyFloat(Fin(2)), PyComplex(Fin(2), Fin(2))}, MaxLen)}
    \cup {Input("list", "", <<1, Len(d)>>, d) :
        d \in SeqsUpTo({PyFloat(Fin(2))}, MaxLen)}

NdarrayXInputs ==
    {Input("ndarray", "float64", <<Len(d)>>, d) :
        d \in SeqsUpTo({NpFloat64(Fin(-1)), NpFloat64(Fin(2)),
                        NpFloat64(NaN)}, MaxLen)}
    \cup {Input("ndarray", "float64", <<1>>, <<NpFloat64(f)>>) :
        f \in {PInf, NInf}}
    \cup {Input("ndarray", "float32", <<Len(d)>>, d) :
        d \in SeqsUpTo({NpFloat32(Fin(-1)), NpFloat32(Fin(2))}, MaxLen)}
    \cup {Input("ndarray", "int64", <<1>>, <<o>>) :
        o \in {NpInt64(1), Obj("numpy.int64", Big(1), Zero)}}
    \cup {Input("ndarray", "complex128", <<Len(d)>>, d) :
        d \in SeqsUpTo({Obj("numpy.complex128", Fin(2), Zero),
                        Obj("numpy.complex128", Fin(2), Fin(2))}, MaxLen)}
    \cup {Input("ndarray", dt, <<>>, <<Obj("numpy." \o dt, Fin(2), Zero)>>) :
        dt \in {"float64", "float32"}}
    \cup {Input("ndarray", "float64", <<1, Len(d)>>, d) :
        d \in SeqsUpTo({NpFloat64(Fin(2))}, MaxLen)}
    \cup {Input("ndarray", "complex128", <<1, 1>>,
                 <<Obj("numpy.complex128", Fin(2), Fin(2))>>)}

XInputs == ScalarXInputs \cup ListXInputs \cup NdarrayXInputs

Init ==
    /\ pc = "called"
    /\ x \in XInputs
    /\ n \in OrderInputs
    /\ alpha \in AlphaInputs
    /\ x_center \in CenterInputs
    /\ x_original = x
    /\ validated = Pending
    /\ x_internal = Array(_X_DTYPE, <<0>>, <<>>, "own")
    /\ columns = 0
    /\ basis = <<>>
    /\ n_validations = 0
    /\ outcome = Pending
    /\ SearchIdle
    /\ NeighbourIdle
    /\ SplineIdle
    /\ ParallelIdle

Next == Validate \/ Center \/ Dilate \/ RecurrenceStep \/ Finish

Spec == Init /\ [][Next]_vars

-----------------------------------------------------------------------------
(* The offline search for the largest extremum:                             *)
(* auxiliary_scripts/02_hermite_functions_largest_extremum.py               *)

\* points of one evaluation grid (100 in the source)
NUM_EVAL == 4
\* positions and lengths count units of 1e-11, so that X_ATOL is one unit
X_ATOL == 1
MAX_ITER == 20
\* the widest initial bracket, in the same units
MaxWidth == 8

\* A function value is [sgn, lvl, ulp], the number sgn * (lvl + ulp * 2^-50)
\* with lvl and ulp small naturals: values of one level differ by a few
\* units in the last place, values of different levels by 1 or more.
Value(sgn, lvl, ulp) == [sgn |-> sgn, lvl |-> lvl, ulp |-> ulp]
np_abs(v) == [v EXCEPT !.sgn = IF v.lvl = 0 /\ v.ulp = 0 THEN 0 ELSE 1]
\* a < b for two absolute values
Less(a, b) == a.lvl < b.lvl \/ (a.lvl = b.lvl /\ a.ulp < b.ulp)

\* (extremum - value) < Y_RTOL * extremum with Y_RTOL = 1e-13, decided on
\* the absolute values lvl + ulp * 2^-50: a negative difference is below
\* the non-negative tolerance; a zero difference is below it unless the
\* extremum is 0; within a level >= 1 the difference is below 1e-13; in
\* every other case it is more than 1e-13 times the extremum
y_tolerance_met(extremum_absolute_value, value) ==
    IF Less(extremum_absolute_value, value) THEN TRUE
    ELSE IF value = extremum_absolute_value
    THEN extremum_absolute_value.lvl > 0 \/ extremum_absolute_value.ulp > 0
    ELSE value.lvl = extremum_absolute_value.lvl /\ value.lvl >= 1

\* the loop "for index in range(index, boundary_index, step)" with its
\* early return; falls through to "return boundary_index"
RECURSIVE _scan_range(_, _, _, _, _)
_scan_range(values, target_value, index, boundary_index, step) ==
    IF (step = 1 /\ index >= boundary_index)
       \/ (step = -1 /\ index <= boundary_index)
    THEN boundary_index
    ELSE IF Less(values[index + 1], target_value)
    THEN index
    ELSE _scan_range(values, target_value, index + step, boundary_index, step)

\* the same loop returning at a value that is smaller than or equal to the
\* target value
RECURSIVE _scan_range_leq(_, _, _, _, _)
_scan_range_leq(values, target_value, index, boundary_index, step) ==
    IF (step = 1 /\ index >= boundary_index)
       \/ (step = -1 /\ index <= boundary_index)
    THEN boundary_index
    ELSE IF ~Less(target_value, values[index + 1])
    THEN index
    ELSE _scan_range_leq(values, target_value, index + step, boundary_index,
                         step)

_find_first_index_of_smaller_neighbour_point_leq(values, target_value, target_index, side) ==
    IF side = "left"
    THEN Return(_scan_range_leq(values, target_value, target_index - 1, 0, -1))
    ELSE IF side = "right"
    THEN Return(_scan_range_leq(values, target_value, target_index + 1,
                                Len(values) - 1, 1))
    ELSE Raise("AssertionError", <<"Invalid", "side", "'" \o side \o "'">>)

\* the search with the two sides taken for each other
_find_first_index_of_smaller_neighbour_point_sides_swapped(values, target_value, target_index, side) ==
    IF side = "right"
    THEN Return(_scan_range(values, target_value, target_index - 1, 0, -1))
    ELSE IF side = "left"
    THEN Return(_scan_range(values, target_value, target_index + 1,
                            Len(values) - 1, 1))
    ELSE Raise("AssertionError", <<"Invalid", "side", "'" \o side \o "'">>)

_find_first_index_of_smaller_neighbour_point(values, target_value, target_index, side) ==
    IF side = "left"
    THEN Return(_scan_range(values, target_value, target_index - 1, 0, -1))
    ELSE IF side = "right"
    THEN Return(_scan_range(values, target_value, target_index + 1,
                            Len(values) - 1, 1))
    ELSE Raise("AssertionError", <<"Invalid", "side", "'" \o side \o "'">>)

\* what single_hermite_function may give at a grid point, and its
\* absolute values
HermiteValues == {Value(0, 0, 0), Value(1, 1, 0), Value(-1, 1, 1)}
AbsoluteValues == {np_abs(v) : v \in HermiteValues}
Sides == {"left", "right", "middle"}

NeighbourInit ==
    /\ EvaluatorIdle
    /\ SearchIdle
    /\ SplineIdle
    /\ ParallelIdle
    /\ \E len \in 1..NUM_EVAL :
         \E values \in [1..len -> AbsoluteValues] :
           \E target_value \in AbsoluteValues, target_index \in 0..(len - 1),
              side \in Sides :
             neighbour_call = [pc |-> "called", values |-> values,
                               target_value |-> target_value,
                               target_index |-> target_index,
                               side |-> side, result |-> Pending]

FindNeighbour ==
    /\ neighbour_call.pc = "called"
    /\ neighbour_call' =
         [neighbour_call EXCEPT
            !.pc = "done",
            !.result = _find_first_index_of_smaller_neighbour_point(
                           neighbour_call.values, neighbour_call.target_value,
                           neighbour_call.target_index, neighbour_call.side)]
    /\ UNCHANGED nonNeighbourVars

SpecNeighbour == NeighbourInit /\ [][FindNeighbour]_vars

(* find_hermite_functions_largest_extremum_x *)

\* np.linspace(start, stop, num): both ends exact, the points between them
\* rounded to the resolution
np_linspace(start, stop, num) ==
    [i \in 1..num |-> IF i = num THEN stop
                      ELSE start + ((i - 1) * (stop - start)) \div (num - 1)]

\* np.argmax: the first index of the largest value
np_argmax(values) ==
    CHOOSE i \in 0..(Len(values) - 1) :
        /\ \A j \in 0..(Len(values) - 1) : ~Less(values[i + 1], values[j + 1])
        /\ \A j \in 0..(i - 1) : Less(values[j + 1], values[i + 1])

\* (upper - lower) / (NUM_EVAL - 1), kept as a fraction
Spacing(lower, upper) == [num |-> upper - lower, den |-> NUM_EVAL - 1]
SpacingGreater(spacing, length) == spacing.num > length * spacing.den

\* the loop condition letting iter_i = MAX_ITER through
LoopCondition_off_by_one ==
    SpacingGreater(x_spacing, X_ATOL) /\ iter_i <= MAX_ITER

LoopCondition == SpacingGreater(x_spacing, X_ATOL) /\ iter_i < MAX_ITER

\* the state when the loop is reached: the bracket is the pair of landmarks
SearchInit ==
    /\ EvaluatorIdle
    /\ NeighbourIdle
    /\ SplineIdle
    /\ ParallelIdle
    /\ search_pc = "loop"
    /\ x_largest_zero = 0
    /\ x_fadeout \in ((NUM_EVAL - 1) * X_ATOL + 1)..MaxWidth
    /\ x_lower_bound = x_largest_zero
    /\ x_upper_bound = x_fadeout
    /\ x_spacing = Spacing(x_lower_bound, x_upper_bound)
    /\ iter_i = 0
    /\ extremum_index = 0
    /\ x_extremum = Unbound
    /\ index_left_of_extremum = 0 /\ index_right_of_extremum = 0
    /\ y_tolerance_met_left = FALSE /\ y_tolerance_met_right = FALSE
    /\ num_evaluations = 0

\* one pass through the loop body, its break and the return after it
\* included
SearchIteration ==
    /\ search_pc = "loop"
    /\ LoopCondition
    /\ \E hermite_values \in [1..NUM_EVAL -> HermiteValues] :
         LET x_eval == np_linspace(x_lower_bound, x_upper_bound, NUM_EVAL)
             hermite_values_absolute ==
                 [i \in 1..NUM_EVAL |-> np_abs(hermite_values[i])]
         IN  /\ extremum_index' = np_argmax(hermite_values_absolute)
             /\ x_extremum' = Bound(x_eval[extremum_index' + 1])
             /\ index_left_of_extremum' =
                    _find_first_index_of_smaller_neighbour_point(
                        hermite_values_absolute,
                        hermite_values_absolute[extremum_index' + 1],
                        extremum_index', "left").value
             /\ index_right_of_extremum' =
                    _find_first_index_of_smaller_neighbour_point(
                        hermite_values_absolute,
                        hermite_values_absolute[extremum_index' + 1],
                        extremum_index', "right").value
             /\ y_tolerance_met_left' =
                    y_tolerance_met(
                        hermite_values_absolute[extremum_index' + 1],
                        hermite_values_absolute[index_left_of_extremum' + 1])
             /\ y_tolerance_met_right' =
                    y_tolerance_met(
                        hermite_values_absolute[extremum_index' + 1],
                        hermite_values_absolute[index_right_of_extremum' + 1])
             /\ num_evaluations' = num_evaluations + 1
             /\ IF y_tolerance_met_left' /\ y_tolerance_met_right'
                THEN /\ search_pc' = "returned"
                     /\ UNCHANGED <<x_lower_bound, x_upper_bound, x_spacing,
                                    iter_i>>
                ELSE /\ x_lower_bound' = x_eval[index_left_of_extremum' + 1]
                     /\ x_upper_bound' = x_eval[index_right_of_extremum' + 1]
                     /\ x_spacing' = Spacing(x_lower_bound', x_upper_bound')
                     /\ iter_i' = iter_i + 1
                     /\ search_pc' = "loop"
    /\ UNCHANGED <<x_largest_zero, x_fadeout, nonSearchVars>>

\* the loop condition fails: "return x_extremum", an UnboundLocalError if
\* the body never ran
SearchExit ==
    /\ search_pc = "loop"
    /\ ~LoopCondition
    /\ search_pc' = IF x_extremum.bound THEN "returned" ELSE "raised"
    /\ UNCHANGED <<x_largest_zero, x_fadeout, x_lower_bound, x_upper_bound,
                   x_spacing, iter_i, extremum_index, x_extremum,
                   index_left_of_extremum, index_right_of_extremum,
                   y_tolerance_met_left, y_tolerance_met_right,
                   num_evaluations, nonSearchVars>>

SearchNext == SearchIteration \/ SearchExit

SpecSearch == SearchInit /\ [][SearchNext]_vars
\* the function runs on once it is called
FairSpecSearch == SpecSearch /\ WF_vars(SearchNext)

-----------------------------------------------------------------------------
(* The spline of the largest extrema: the orders the script fits, the      *)
(* specifications it writes and their evaluation                            *)

ORDER_START == 1
\* (order to, spacing)
ORDERS_AND_SPACINGS ==
    << <<100, 1>>, <<250, 2>>, <<500, 4>>, <<1000, 8>>, <<2500, 16>>,
       <<5000, 32>>, <<10000, 64>>, <<25000, 128>>, <<50000, 256>>,
       <<100512, 512>> >>
SPLINE_DEGREE == 5

\* list(range(start, stop, step)) for a positive step
range(start, stop, step) ==
    [i \in 1..((stop - start + step - 1) \div step) |->
        start + (i - 1) * step]

\* the loop "for order_end, spacing in ORDERS_AND_SPACINGS" from its k-th
\* pass on
RECURSIVE extend_orders(_, _, _)
extend_orders(orders_so_far, order_start, k) ==
    IF k > Len(ORDERS_AND_SPACINGS) THEN orders_so_far
    ELSE extend_orders(
             orders_so_far \o range(order_start, ORDERS_AND_SPACINGS[k][1],
                                    ORDERS_AND_SPACINGS[k][2]),
             ORDERS_AND_SPACINGS[k][1], k + 1)

orders == extend_orders(<<>>, ORDER_START, 1)

\* the maximum order written as the end of the last block of orders
HERMITE_LARGEST_EXTREMA_MAX_ORDER_order_end ==
    ORDERS_AND_SPACINGS[Len(ORDERS_AND_SPACINGS)][1]

\* order_stop = round(orders[-1]) in the file the script writes
HERMITE_LARGEST_EXTREMA_MAX_ORDER == orders[Len(orders)]

\* the fitted knots and coefficients are not computed here
HERMITE_LARGEST_EXTREMA_SPLINE_TCK ==
    [knots |-> "knots", coefficients |-> "coefficients",
     degree |-> SPLINE_DEGREE]

\* the value of the spline tck at the order n_in
splev(n_in, tck) == [spline |-> tck, at |-> n_in]

\* the evaluation of the spline: a domain error above the maximum order
approximate_hermite_funcs_largest_extrema_x(n_in, specs) ==
    IF n_in > specs.max_order
    THEN Raise("DomainError", <<"order", ToString(n_in), "exceeds", "the",
                                "maximum", "order",
                                ToString(specs.max_order)>>)
    ELSE Return(splev(n_in, specs.tck))

\* orders are asked for up to this distance from the last fitted order
MaxOrderDistance == 10
\* evaluations in a row
MaxCalls == 3

SplineOrders ==
    {0, ORDER_START, HERMITE_LARGEST_EXTREMA_MAX_ORDER_order_end}
    \cup {orders[Len(orders)] + d : d \in -MaxOrderDistance..MaxOrderDistance}

SplineInit ==
    /\ EvaluatorIdle
    /\ SearchIdle
    /\ NeighbourIdle
    /\ ParallelIdle
    /\ spline_specs = [max_order |-> HERMITE_LARGEST_EXTREMA_MAX_ORDER,
                       tck |-> HERMITE_LARGEST_EXTREMA_SPLINE_TCK]
    /\ spline_call = [pc |-> "idle", n |-> 0, result |-> Pending, calls |-> 0]

SplineCall ==
    /\ spline_call.pc \in {"idle", "returned", "raised"}
    /\ spline_call.calls < MaxCalls
    /\ \E n_in \in SplineOrders :
         spline_call' = [pc |-> "called", n |-> n_in, result |-> Pending,
                         calls |-> spline_call.calls + 1]
    /\ UNCHANGED <<spline_specs, nonSplineVars>>

SplineEvaluate ==
    /\ spline_call.pc = "called"
    /\ LET r == approximate_hermite_funcs_largest_extrema_x(spline_call.n,
                                                            spline_specs)
       IN  spline_call' = [spline_call EXCEPT
                             !.pc = IF r.ok THEN "returned" ELSE "raised",
                             !.result = r]
    /\ UNCHANGED <<spline_specs, nonSplineVars>>

SplineNext == SplineCall \/ SplineEvaluate

SpecSpline == SplineInit /\ [][SplineNext]_vars

-----------------------------------------------------------------------------
(* The full basis evaluated by a pool of workers over blocks of coordinates *)

\* coordinates of one call
MaxPoints == 3
\* workers of the pool
MaxWorkers == 3

\* the row of the basis at one coordinate: the orders 0 .. n_valid
basis_row(xi, n_valid) ==
    [k \in 1..(n_valid + 1) |-> single_hermite_function(<<xi>>, k - 1)[1]]

\* blocks of equal size, the coordinates beyond the last full block left out
block_of_worker_no_remainder(w, num_points, num_workers) ==
    (((w - 1) * (num_points \div num_workers)) + 1)
        ..(w * (num_points \div num_workers))

\* the contiguous block of coordinate indices (from 1) of worker w
block_of_worker(w, num_points, num_workers) ==
    (((w - 1) * num_points) \div num_workers + 1)
        ..((w * num_points) \div num_workers)

BlockOf(w) ==
    block_of_worker(w, Len(parallel_call.xs), parallel_call.workers)
BlockEnd(w) == (w * Len(parallel_call.xs)) \div parallel_call.workers
Unwritten == <<>>

ParallelInit ==
    /\ EvaluatorIdle
    /\ SearchIdle
    /\ NeighbourIdle
    /\ SplineIdle
    /\ \E len \in 1..MaxPoints, workers \in 1..MaxWorkers, n_valid \in 0..1 :
         \E xs \in [1..len -> {Fin(-1), Fin(2)}] :
            parallel_call = [pc |-> "called", xs |-> xs, n |-> n_valid,
                             workers |-> workers,
                             next |-> <<>>,
                             out |-> [i \in 1..len |-> Unwritten]]

\* the coordinates are split and every worker is set to the start of its
\* block
Fork ==
    /\ parallel_call.pc = "called"
    /\ parallel_call' =
         [parallel_call EXCEPT
            !.pc = "running",
            !.next = [w \in 1..parallel_call.workers |->
                         IF BlockOf(w) = {} THEN BlockEnd(w) + 1
                         ELSE CHOOSE i \in BlockOf(w) :
                                 \A j \in BlockOf(w) : i <= j]]
    /\ UNCHANGED nonParallelVars

\* worker w evaluates the next coordinate of its block and writes its row
WorkerStep(w) ==
    /\ parallel_call.pc = "running"
    /\ parallel_call.next[w] \in BlockOf(w)
    /\ parallel_call' =
         [parallel_call EXCEPT
            !.out[parallel_call.next[w]] =
                basis_row(parallel_call.xs[parallel_call.next[w]],
                          parallel_call.n),
            !.next[w] = @ + 1]
    /\ UNCHANGED nonParallelVars

\* the caller goes on when every worker is through its block
Join ==
    /\ parallel_call.pc = "running"
    /\ \A w \in 1..parallel_call.workers : parallel_call.next[w] \notin BlockOf(w)
    /\ parallel_call' = [parallel_call EXCEPT !.pc = "returned"]
    /\ UNCHANGED nonParallelVars

ParallelNext ==
    \/ Fork
    \/ \E w \in 1..MaxWorkers : w <= parallel_call.workers /\ WorkerStep(w)
    \/ Join

SpecParallel == ParallelInit /\ [][ParallelNext]_vars

-----------------------------------------------------------------------------
(* What the caller gave, read without the validation functions *)

\* the value of the caller's order seen as an integer (None if it is none)
IsIntegerType(obj) == obj.type \in {"int", "bool", "numpy.int64"}
IsRealScalarType(obj) ==
    obj.type \in {"int", "bool", "float", "numpy.int64", "numpy.float64",
                  "numpy.float32"}
IsNegative(num) == num.k = "fin" /\ num.v < 0

\* the three validations that precede that of a parameter accept
XAccepted == get_validated_x_values(x).ok
OrderAccepted == get_validated_order(n).ok
AlphaAccepted == get_validated_alpha(alpha).ok
CenterAccepted == get_validated_offset_along_axis(x_center, "x").ok

-----------------------------------------------------------------------------
(* Claims *)

\* C1: an integer order n < 0 (Python int or NumPy integer) ends the order
\* validation in a ValueError and no value is returned: the call is never
\* past its validation, and once x is accepted the error the caller gets is
\* the ValueError about 'n'.  An integer order n >= 0 is returned as the
\* Python int of the same value.
C1_IntegerOrderBySign ==
    LET r == get_validated_order(n)
    IN  IsIntegerType(n) =>
          IF IsNegative(n.num)
          THEN /\ ~r.ok /\ r.exc = "ValueError"
               /\ pc \in {"called", "raised"}
               /\ (pc = "raised" /\ XAccepted =>
                      /\ outcome.exc = "ValueError"
                      /\ Contains(outcome.msg, <<"'n'">>))
          ELSE /\ r.ok
               /\ isinstance(r.value, {"int"})
               /\ r.value.num = n.num
               /\ (pc \notin {"called", "raised"} =>
                      validated.value[2].num = n.num)

C1_Witness ==
    /\ pc = "raised"
    /\ n = NpInt64(-1)
    /\ XAccepted
    /\ outcome.exc = "ValueError"
    /\ Contains(outcome.msg, <<"non-negative", "integer", "but", "got", "-1.">>)

\* C2: an order that is not of an integer type ends the order validation in
\* a TypeError, whatever its value: the float 1.0 and a negative float
\* included (TypeError, not ValueError).
C2_NonIntegerOrderIsTypeError ==
    LET r == get_validated_order(n)
    IN  ~IsIntegerType(n) =>
          /\ ~r.ok /\ r.exc = "TypeError"
          /\ pc \in {"called", "raised"}
          /\ (pc = "raised" /\ XAccepted =>
                 /\ outcome.exc = "TypeError"
                 /\ Contains(outcome.msg,
                             <<"Expected", "'n'", "to", "be", "an", "integer">>))

C2_Witness ==
    /\ pc = "raised"
    /\ n = PyFloat(Fin(-2))
    /\ XAccepted
    /\ outcome.exc = "TypeError"
    /\ Contains(outcome.msg, <<"'n'">>)

\* C3: alpha validation decides every input: an alpha that is no real
\* scalar raises TypeError; otherwise an alpha <= 0 raises ValueError;
\* otherwise the validated alpha is a float equal to the input and strictly
\* positive.  Read on a call whose x and n were accepted, so that the alpha
\* validation decides what the call does.
C3_AlphaDecisionRule ==
    LET r == get_validated_alpha(alpha)
    IN  pc # "called" /\ XAccepted /\ OrderAccepted =>
          IF ~IsRealScalarType(alpha)
          THEN ~r.ok /\ r.exc = "TypeError" /\ outcome = r
          ELSE IF LeqZero(alpha.num)
          THEN ~r.ok /\ r.exc = "ValueError" /\ outcome = r
          ELSE /\ r.ok
               /\ r.value.type = "float"
               /\ NumEq(r.value.num, alpha.num)
               /\ IsPositive(r.value.num)

\* the coordinate input has an element with a non-zero imaginary part
IsNotRealValued(x_in) ==
    \E i \in 1..Len(x_in.data) : x_in.data[i].im # Zero

\* C4: a coordinate input that is not real-valued (such as 1.0+1.0j) raises
\* a TypeError whose message contains "Expected 'x' to be a float, int, or
\* an Array-like".
C4_ComplexXMessage ==
    pc # "called" /\ IsNotRealValued(x) =>
        /\ pc = "raised"
        /\ outcome.exc = "TypeError"
        /\ Contains(outcome.msg,
                    <<"Expected", "'x'", "to", "be", "a", "float,", "int,",
                      "or", "an", "Array-like">>)

\* C5: an x_center that is neither a real scalar nor None raises a TypeError
\* whose message contains "Expected 'x_center' to be a float, integer, or
\* None"; None is validated to 0.0; an integer or NumPy scalar center is
\* returned as the equal float.  Read on a call whose x, n and alpha were
\* accepted.
C5_CenterRule ==
    LET r == get_validated_offset_along_axis(x_center, "x")
    IN  pc # "called" /\ XAccepted /\ OrderAccepted /\ AlphaAccepted =>
          IF x_center = PyNone
          THEN r = Return(PyFloat(Zero)) /\ validated.value[4] = PyFloat(Zero)
          ELSE IF ~IsRealScalarType(x_center)
          THEN /\ pc = "raised"
               /\ outcome.exc = "TypeError"
               /\ Contains(outcome.msg,
                           <<"Expected", "'x_center'", "to", "be", "a",
                             "float,", "integer,", "or", "None">>)
          ELSE /\ r.ok
               /\ validated.value[4] = r.value
               /\ r.value.type = "float"
               /\ (x_center.type # "float" => NumEq(r.value.num, x_center.num))

\* the number of dimensions and of elements of the input once a scalar (or
\* a 0-dimensional array) is promoted to a one-element array
PromotedNdim(x_in) == IF x_in.shape = <<>> THEN 1 ELSE Len(x_in.shape)
NumElements(x_in) == Len(x_in.data)

\* the float64 of an input element: its real part, rounded when it is an
\* integer beyond 2^53
SameAsFloat64(elem, obj) ==
    /\ elem.type = "numpy.float64"
    /\ elem.im = Zero
    /\ IF obj.num.k = "big" THEN elem.num.k = "big" /\ elem.num.v % 2 = 0
       ELSE elem.num = obj.num

\* C6: a real coordinate input is accepted if and only if, scalars promoted,
\* it has exactly one dimension and at least one element; two or more
\* dimensions raise ValueError, an empty 1-D input raises ValueError, and an
\* accepted input comes back as a 1-D float64 array of the same length with
\* the elements in the input's order.
C6_XShapeRule ==
    LET r == get_validated_x_values(x)
    IN  ~IsNotRealValued(x) =>
          /\ r.ok <=> (PromotedNdim(x) = 1 /\ NumElements(x) >= 1)
          /\ PromotedNdim(x) >= 2 =>
                /\ r.exc = "ValueError"
                /\ Contains(r.msg, <<"to", "be", "1-dimensional">>)
          /\ PromotedNdim(x) = 1 /\ NumElements(x) = 0 =>
                /\ r.exc = "ValueError"
                /\ Contains(r.msg, <<"at", "least", "one", "element">>)
          /\ r.ok =>
                /\ r.value.dtype = "float64"
                /\ r.value.shape = <<NumElements(x)>>
                /\ Len(r.value.data) = NumElements(x)
                /\ \A i \in 1..NumElements(x) :
                       SameAsFloat64(r.value.data[i], x.data[i])
          /\ pc \notin {"called", "raised"} => validated.value[1] = r.value
          /\ pc = "raised" /\ ~r.ok => outcome = r

C6_Witness ==
    /\ pc = "validated"
    /\ x.kind = "ndarray" /\ x.dtype = "float32" /\ x.shape = <<2>>
    /\ x.data[1].num # x.data[2].num
    /\ validated.value[1].dtype = "float64"
    /\ validated.value[1].data[1].num = x.data[1].num
    /\ validated.value[1].data[2].num = x.data[2].num

\* an input that violates the constraints n >= 0, alpha > 0, finite real
\* coordinates, finite real x_center
HasNonFinite(x_in) ==
    \E i \in 1..Len(x_in.data) : x_in.data[i].num.k \in {"nan", "pinf", "ninf"}
ViolatesConstraints ==
    \/ IsNotRealValued(x) \/ HasNonFinite(x)
    \/ PromotedNdim(x) # 1 \/ NumElements(x) < 1
    \/ ~IsIntegerType(n) \/ IsNegative(n.num)
    \/ ~IsRealScalarType(alpha) \/ ~IsPositive(alpha.num)
    \/ alpha.num.k \in {"nan", "pinf", "ninf"}
    \/ (x_center # PyNone /\ ~IsRealScalarType(x_center))
    \/ x_center.num.k \in {"nan", "pinf", "ninf"}

\* C7: every violation of the input constraints is rejected by the
\* validation: a coordinate array with a NaN or an infinity, a non-finite
\* alpha and a non-finite x_center never pass.
C7_ViolationsRejected ==
    pc # "called" /\ ViolatesConstraints =>
        pc = "raised" /\ ~validated.ok

\* the four validations, each asked about its own parameter
AllAccepted == XAccepted /\ OrderAccepted /\ AlphaAccepted /\ CenterAccepted

\* C8: the validation of x, n, alpha and x_center is complete before the
\* first step of the recurrence; a call with an invalid parameter ends in
\* an error with no recurrence step and no result, and the error is final:
\* the validation ran once and nothing follows the error.
C8_ValidationBeforeRecurrence ==
    /\ n_validations <= 1
    /\ (columns > 0 \/ pc \in {"validated", "centered", "dilated", "returned"})
          => AllAccepted /\ validated.ok /\ n_validations = 1
    /\ (pc # "called" /\ ~AllAccepted) =>
          /\ pc = "raised"
          /\ columns = 0
          /\ ~outcome.ok /\ outcome.exc \in {"TypeError", "ValueError"}
          /\ x_internal.data = <<>>
          /\ ~ENABLED Next

C8_Witness ==
    /\ pc = "raised"
    /\ XAccepted /\ OrderAccepted /\ AlphaAccepted /\ ~CenterAccepted
    /\ n_validations = 1
    /\ columns = 0

\* C9: the caller's coordinate object holds the same elements during and
\* after the call as before it, when the call returns and when it raises,
\* for every x_center and every dtype; the centred and dilated values are
\* in the evaluator's own storage.
C9_CallerXUnchanged ==
    /\ x = x_original
    /\ x_internal.base = "own"

C9_Witness ==
    /\ pc = "returned"
    /\ x.kind = "ndarray" /\ x.dtype = "float64" /\ x.shape = <<2>>
    /\ x_center = PyFloat(Fin(2))
    /\ validated.value[1].base = "x"
    /\ \A i \in 1..2 : x_internal.data[i] # x.data[i].num
    /\ x = x_original

\* C10 (as claimed): the validated coordinate array shares its storage with
\* the caller's input if and only if the input is a 1-D float64 array.
C10_SharedIffOneDimFloat64 ==
    pc \notin {"called", "raised"} =>
        (validated.value[1].base = "x"
            <=> (x.kind = "ndarray" /\ x.dtype = "float64"
                 /\ Len(x.shape) = 1))

\* C10 (amended): the validated coordinate array shares its storage with
\* the caller's input if and only if the input is a float64 array of at
\* most one dimension (a 0-dimensional float64 array comes back as a view);
\* for Python and NumPy scalars, lists, tuples and arrays of another dtype
\* it is a fresh copy.
C10_SharedIffFloat64Array ==
    LET r == get_validated_x_values(x)
    IN  /\ r.ok =>
            (r.value.base = "x"
                <=> (x.kind = "ndarray" /\ x.dtype = "float64"
                     /\ Len(x.shape) <= 1))
        /\ r.ok /\ (x.kind \in {"scalar", "list", "tuple"}
                    \/ x.dtype # "float64") => r.value.base = "own"
        /\ pc \notin {"called", "raised"} => validated.value[1] = r.value

C10_Witness ==
    /\ pc = "validated"
    /\ x.kind = "ndarray" /\ x.dtype = "float64" /\ x.shape = <<>>
    /\ validated.value[1].base = "x"
    /\ validated.value[1].shape = <<1>>

\* the error of the first of the four validations, taken in the order
\* x, n, alpha, x_center, that rejects its parameter
FirstRejection ==
    IF ~XAccepted THEN get_validated_x_values(x)
    ELSE IF ~OrderAccepted THEN get_validated_order(n)
    ELSE IF ~AlphaAccepted THEN get_validated_alpha(alpha)
    ELSE get_validated_offset_along_axis(x_center, "x")

\* C19: the parameters are validated in the order x, n, alpha, x_center and
\* the call ends at the first failure, so with several invalid parameters
\* the error raised is that of the earliest one in this order.  Within x the
\* check for real values (TypeError) comes before the check of the number
\* of dimensions, which comes before the check for emptiness.
C19_FirstFailureInOrder ==
    LET rx == get_validated_x_values(x)
    IN  /\ pc = "raised" =>
              /\ ~AllAccepted
              /\ outcome = FirstRejection
              /\ n_validations = 1
        /\ pc \notin {"called", "raised"} => AllAccepted
        /\ IsNotRealValued(x) => rx.exc = "TypeError"
        /\ ~IsNotRealValued(x) /\ PromotedNdim(x) # 1 =>
              /\ rx.exc = "ValueError"
              /\ Contains(rx.msg, <<"to", "be", "1-dimensional">>)
        /\ ~IsNotRealValued(x) /\ PromotedNdim(x) = 1 /\ NumElements(x) = 0 =>
              /\ rx.exc = "ValueError"
              /\ Contains(rx.msg, <<"at", "least", "one", "element">>)

\* a 2-D complex x with an invalid n, alpha and x_center: the TypeError
\* raised is the one about 'x'
C19_Witness ==
    /\ pc = "raised"
    /\ IsNotRealValued(x) /\ PromotedNdim(x) = 2
    /\ ~OrderAccepted /\ ~AlphaAccepted /\ ~CenterAccepted
    /\ outcome.exc = "TypeError"
    /\ Contains(outcome.msg, <<"Expected", "'x'">>)

\* the indices strictly between the target index and the boundary of a side
\* whose value is strictly smaller than the target value
SmallerBetween(call) ==
    {i \in (IF call.side = "left"
            THEN 1..(call.target_index - 1)
            ELSE (call.target_index + 1)..(Len(call.values) - 2)) :
        Less(call.values[i + 1], call.target_value)}
Nearest(call, indices) ==
    CHOOSE i \in indices :
        \A j \in indices : IF call.side = "left" THEN j <= i ELSE j >= i
BoundaryIndex(call) ==
    IF call.side = "left" THEN 0 ELSE Len(call.values) - 1

\* C20: _find_first_index_of_smaller_neighbour_point returns the index
\* nearest to target_index on the requested side whose value is strictly
\* smaller than target_value; when no value strictly between target_index
\* and the boundary of that side is smaller it returns the boundary index
\* (0 on the left, size - 1 on the right), also when target_index is that
\* boundary.  The result is a valid index on the requested side of
\* target_index.
C20_NearestSmallerOrBoundary ==
    LET call == neighbour_call
    IN  call.pc = "done" /\ call.side \in {"left", "right"} =>
          /\ call.result.ok
          /\ call.result.value =
                IF SmallerBetween(call) # {}
                THEN Nearest(call, SmallerBetween(call))
                ELSE BoundaryIndex(call)
          /\ call.result.value \in 0..(Len(call.values) - 1)
          /\ IF call.side = "left"
             THEN call.result.value <= call.target_index
             ELSE call.result.value >= call.target_index

\* on the right of index 1 of four values nothing is smaller than the
\* target value, the last value included: the boundary index 3 is returned
C20_Witness ==
    /\ neighbour_call.pc = "done"
    /\ neighbour_call.side = "right"
    /\ Len(neighbour_call.values) = 4
    /\ neighbour_call.target_index = 1
    /\ \A i \in 2..3 :
          ~Less(neighbour_call.values[i + 1], neighbour_call.target_value)
    /\ neighbour_call.result.value = 3

\* C17: the extremum search ends for every bracket and every run of grid
\* values, after at most MAX_ITER = 20 grid evaluations, also when the
\* bracket stops shrinking; it ends without a further evaluation as soon as
\* the grid spacing is at most X_ATOL, and with the evaluation in which both
\* neighbouring values are within the relative y-tolerance of the maximum.
C17_SearchTerminates ==
    /\ [](num_evaluations <= MAX_ITER)
    /\ <>(search_pc # "loop")
    /\ [][search_pc = "loop" /\ ~SpacingGreater(x_spacing, X_ATOL) =>
             search_pc' = "returned" /\ num_evaluations' = num_evaluations]_vars
    /\ [][num_evaluations' # num_evaluations
          /\ y_tolerance_met_left' /\ y_tolerance_met_right' =>
             search_pc' = "returned"]_vars
    /\ [][search_pc # "loop" => UNCHANGED vars]_vars

\* a search whose bracket never shrank returns after MAX_ITER evaluations
C17_Witness ==
    /\ search_pc = "returned"
    /\ num_evaluations = MAX_ITER
    /\ iter_i = MAX_ITER
    /\ x_lower_bound = x_largest_zero
    /\ x_upper_bound = x_fadeout
    /\ ~(y_tolerance_met_left /\ y_tolerance_met_right)

\* C18: after every iteration of the search the new bracket lies within the
\* previous one and contains the location of the grid maximum (the
\* neighbour indices satisfy index_left <= extremum_index <= index_right);
\* so the lower bound never decreases, the upper bound never increases, and
\* the x_extremum returned lies inside the initial bracket of the two
\* landmarks.
C18_BracketShrinksAroundMaximum ==
    /\ [](num_evaluations > 0 =>
            /\ index_left_of_extremum <= extremum_index
            /\ extremum_index <= index_right_of_extremum
            /\ x_lower_bound <= x_extremum.value
            /\ x_extremum.value <= x_upper_bound)
    /\ [][/\ x_lower_bound <= x_lower_bound'
          /\ x_lower_bound' <= x_upper_bound'
          /\ x_upper_bound' <= x_upper_bound]_vars
    /\ [](search_pc = "returned" =>
            /\ x_extremum.bound
            /\ x_largest_zero <= x_extremum.value
            /\ x_extremum.value <= x_fadeout)

\* a search that narrowed its bracket from both ends and returned a location
\* strictly inside the initial bracket
C18_Witness ==
    /\ search_pc = "returned"
    /\ iter_i >= 2
    /\ x_largest_zero < x_lower_bound
    /\ x_upper_bound < x_fadeout
    /\ x_lower_bound < x_extremum.value
    /\ x_extremum.value < x_upper_bound

\* C15: the spline of the largest extrema is evaluated only up to the last
\* order of the offline fit (written as HERMITE_LARGEST_EXTREMA_MAX_ORDER):
\* for an order above it the evaluation fails with a domain error and gives
\* no value, for every order up to it the value of the spline is returned,
\* and no evaluation changes the specifications.
C15_NoExtrapolation ==
    /\ spline_call.pc \in {"returned", "raised"} =>
          IF spline_call.n > orders[Len(orders)]
          THEN /\ spline_call.pc = "raised"
               /\ ~spline_call.result.ok
               /\ spline_call.result.exc = "DomainError"
          ELSE /\ spline_call.pc = "returned"
               /\ spline_call.result.ok
               /\ spline_call.result.value =
                      splev(spline_call.n, HERMITE_LARGEST_EXTREMA_SPLINE_TCK)
    /\ spline_call.pc # "idle" =>
          /\ spline_specs.tck = HERMITE_LARGEST_EXTREMA_SPLINE_TCK
          /\ spline_specs.max_order = HERMITE_LARGEST_EXTREMA_MAX_ORDER

\* after an earlier evaluation the order just above the last fitted one is
\* refused
C15_Witness ==
    /\ spline_call.pc = "raised"
    /\ spline_call.calls >= 2
    /\ spline_call.n = orders[Len(orders)] + 1
    /\ spline_call.result.exc = "DomainError"

\* the shifts of the centering test (-10.0 and 10.0), 1.0 and 2^53
Shifts == {PyFloat(Fin(-20)), PyFloat(Fin(20)), PyFloat(Fin(2)),
           PyFloat(Big(0))}

\* the float64 array x + c for the validated coordinates x of this call
ShiftedX(c) ==
    LET data == validated.value[1].data
    IN  Input("ndarray", "float64", <<Len(data)>>,
              [i \in 1..Len(data) |-> NpFloat64(FAdd(data[i].num, c.num))])

\* the internal coordinates of the call with x + c and x_center = c, at the
\* position this call is at
ShiftedInternal(c) ==
    LET v == get_validated_hermite_function_input(ShiftedX(c), n, alpha, c)
        centered == center_x_values(ShiftedX(c), v.value[1],
                                    v.value[4]).x_internal
    IN  IF pc = "centered" THEN centered
        ELSE dilate_x_values(centered, v.value[3])

\* a call with x_center = 0.0 or None that has centered its coordinates, none
\* of them near 2^53
ReferenceCall ==
    /\ pc \in {"centered", "dilated", "returned"}
    /\ x_center \in {PyNone, PyFloat(Zero)}
    /\ \A i \in 1..Len(validated.value[1].data) :
          validated.value[1].data[i].num.k # "big"

NoneIsZero ==
    x_center = PyNone =>
        validated.value[4] =
            get_validated_offset_along_axis(PyFloat(Zero), "x").value

SequentialResult ==
    [i \in 1..Len(parallel_call.xs) |->
        basis_row(parallel_call.xs[i], parallel_call.n)]

\* C11: the full-basis evaluation over blocks of coordinates gives the same
\* result for every number of workers and every interleaving: the blocks of
\* the workers are disjoint and cover every coordinate index, a worker
\* writes rows of its own block only, the caller returns only after all
\* workers are through, and row i of the result belongs to coordinate i, so
\* the result equals the one of a single worker element by element.
C11_DeterministicAcrossWorkers ==
    /\ [](parallel_call.pc # "idle" =>
            \A i \in 1..Len(parallel_call.xs) :
                \E w \in 1..parallel_call.workers :
                    /\ i \in BlockOf(w)
                    /\ \A v \in 1..parallel_call.workers :
                          i \in BlockOf(v) => v = w)
    /\ [][parallel_call.pc = "running" =>
            \A i \in 1..Len(parallel_call.xs) :
                parallel_call'.out[i] # parallel_call.out[i] =>
                    \E w \in 1..parallel_call.workers :
                        /\ i \in BlockOf(w)
                        /\ i = parallel_call.next[w]
                        /\ parallel_call'.next[w] = i + 1
                        /\ parallel_call.out[i] = Unwritten]_vars
    /\ [](parallel_call.pc = "returned" =>
            /\ \A w \in 1..parallel_call.workers :
                  parallel_call.next[w] = BlockEnd(w) + 1
            /\ parallel_call.out = SequentialResult)

\* three workers on three coordinates, the last of them different from the
\* first, have returned the rows of the orders 0 and 1
C11_Witness ==
    /\ parallel_call.pc = "returned"
    /\ parallel_call.workers = 3
    /\ Len(parallel_call.xs) = 3
    /\ parallel_call.xs[1] # parallel_call.xs[3]
    /\ parallel_call.n = 1
    /\ parallel_call.out[3][2].x = parallel_call.xs[3]

====
